---- MODULE Spec2Model ----
(***************************************************************************)
(* A model of vits/utils.py: the pitch quantizer f0_to_coarse, the         *)
(* spectrogram resizer transform, the checkpoint store (save_checkpoint,   *)
(* load_checkpoint), the checkpoint finder latest_checkpoint_path and the  *)
(* logger bootstrap get_logger.                                            *)
(*                                                                         *)
(* Floating point is modelled in fixed point.  A logarithm carries LnBits  *)
(* fraction bits, an array element ElemBits, and the value that the        *)
(* rescaling of line 32-33 stores is rounded to XFracBits fraction bits:   *)
(* the precision the element type has left at the size of a bin index.     *)
(* Every real float type rounds that value to some binary grid, so values  *)
(* exactly halfway between two integers are stored; the coarse grid makes  *)
(* whole-Hertz inputs reach them.  NaN and -inf are separate values.       *)
(***************************************************************************)
EXTENDS Integers, Sequences, FiniteSets, TLC

VARIABLES
  f0,          \* pitch: the argument of the batch call, [kind, data]
  pc,          \* pitch: "call", then how the batch call ended
  f0_mel,      \* pitch: the local f0_mel when the batch call ended
  f0_coarse,   \* pitch: the array the batch call built
  elem,        \* pitch: the index whose element was passed alone (0: none)
  elem_pc,     \* pitch: how the call on that element ended
  elem_coarse, \* pitch: the array the call on that element built
  dir_path,    \* finder: the directory argument, a string
  f_list,      \* finder: what glob.glob returns, in the file system's order
  finder_pc,   \* finder: "call", then how latest_checkpoint_path ended
  x_path,      \* finder: x, the path latest_checkpoint_path returns
  model,       \* store: the model: its tensors, in .module if it has one
  optimizer,   \* store: the state of the caller's optimizer
  file,        \* store: the checkpoint file: "absent", or what torch.save wrote
  ckpt_pc,     \* store: "idle", or how the last save or load ended
  pre,         \* store: the model's state dict when the last load began
  ret,         \* store: what the last load returned
  mel_arg,     \* resizer: the argument mel, a 3-D tensor
  height,      \* resizer: the argument height
  transform_pc, \* resizer: "call", then how transform ended
  out,         \* resizer: the tensor transform returned
  loggers,     \* logging: logger name -> level and handlers (process-wide)
  logger,      \* logging: the module's global logger, by name
  dirs,        \* logging: the directories that exist
  calls,       \* logging: how often get_logger ran, per (model_dir, filename)
  last         \* logging: what the last get_logger call found and did

pitchVars == <<f0, pc, f0_mel, f0_coarse, elem, elem_pc, elem_coarse>>
finderVars == <<dir_path, f_list, finder_pc, x_path>>

storeVars == <<model, optimizer, file, ckpt_pc, pre, ret>>
resizerVars == <<mel_arg, height, transform_pc, out>>
loggingVars == <<loggers, logger, dirs, calls, last>>

vars == <<pitchVars, finderVars, storeVars, resizerVars, loggingVars>>

----------------------------------------------------------------------------
(* Bounds of the model. *)

\* the longest batch
MaxLen == 2
\* batches hold whole-Hertz values from -MaxNegF0 to MaxPosF0
MaxNegF0 == 720
MaxPosF0 == 1250
\* fraction bits the element type keeps for a rescaled value
XFracBits == 4
\* the longest directory name, the most digits of a step number and the most
\* files the pattern matches
MaxDirLen == 2
MaxDigits == 2
MaxFiles == 2
\* the content of a tensor is one of 0..MaxVal
MaxVal == 1
\* a spectrogram has up to MaxChannels x MaxRows x MaxCols entries and is
\* resized to up to MaxHeight rows
MaxChannels == 2
MaxRows == 3
MaxCols == 2
MaxHeight == 5
\* the number of get_logger calls
MaxCalls == 3

----------------------------------------------------------------------------
(* Fixed-point floats. *)

LnHalfBits == 13
LnRoot == 2^LnHalfBits
LnBits == 2 * LnHalfBits
LnOne == 2^LnBits
ElemBits == 12
One == 2^ElemBits
Half == 2^(ElemBits - 1)
Grid == 2^(ElemBits - XFracBits)

Fin(v) == [c |-> "fin", v |-> v]
NaN == [c |-> "nan", v |-> 0]
NegInf == [c |-> "-inf", v |-> 0]

\* the only element of a singleton set: {e(x) : x \in {a}} evaluates a once
Only(S) == CHOOSE x \in S : TRUE

\* a * b / 2^LnBits for 0 <= a, b < 2^LnBits, exactly floored
MulLn[a \in Int, b \in Int] ==
  LET ah == a \div LnRoot
      al == a % LnRoot
      bh == b \div LnRoot
      bl == b % LnRoot
  IN ah * bh + ((ah * bl + al * bh + ((al * bl) \div LnRoot)) \div LnRoot)

\* n / d in LnBits fraction bits, for 0 <= n < d < 2^17
DivLn[n \in Int, d \in Int] ==
  LET t == n * LnRoot
      q1 == t \div d
      r1 == t % d
  IN q1 * LnRoot + ((r1 * LnRoot) \div d)

\* atanh(z) = z (1 + z^2 (1/3 + z^2 (1/5 + ... + z^2 / 17))) for
\* 0 <= z <= 1/3: the terms past z^17 are below the last fraction bit
Atanh[z \in Int] ==
  LET z2 == MulLn[z, z]
      c(k) == LnOne \div k
  IN z + MulLn[z, MulLn[z2, c(3) + MulLn[z2, c(5) + MulLn[z2, c(7)
       + MulLn[z2, c(9) + MulLn[z2, c(11) + MulLn[z2, c(13)
       + MulLn[z2, c(15) + MulLn[z2, c(17)]]]]]]]]]

LN2 == 2 * Atanh[DivLn[1, 3]]

\* ln(m / d) for d <= m < 2 d, as 2 atanh((m - d) / (m + d))
LnMantissa[m \in Int, d \in Int] == 2 * Atanh[DivLn[m - d, m + d]]

\* ln(n / d) for n, d > 0: n / d = 2^e * (m / d') with 1 <= m / d' < 2
Ln[n \in Int, d \in Int] ==
  IF n >= d
  THEN LET e == CHOOSE k \in 0..8 : d * 2^k <= n /\ n < d * 2^(k + 1)
       IN e * LN2 + LnMantissa[n, d * 2^e]
  ELSE LET e == CHOOSE k \in 1..16 : d <= n * 2^k /\ n * 2^k < 2 * d
       IN LnMantissa[n * 2^e, d] - e * LN2

\* 1127 * l, from LnBits fraction bits to ElemBits
Times1127[l \in Int] ==
  LET s == 2^(LnBits - ElemBits)
  IN (l \div s) * 1127 + (((l % s) * 1127) \div s)

----------------------------------------------------------------------------
(* The pitch quantizer, lines 21-41. *)

f0_bin == 256
f0_max == 1100
f0_min == 50

\* 1127 * log(1 + f0 / 700), lines 24, 25 and 30-31: the logarithm of a
\* negative number is NaN, of zero -inf
\* the modelled pitch values, in Hz
F0Values == (0 - MaxNegF0)..MaxPosF0

Mel ==
  [hz \in F0Values |->
     IF 700 + hz < 0 THEN NaN
     ELSE IF 700 + hz = 0 THEN NegInf
     ELSE Fin(Times1127[Ln[700 + hz, 700]])]

f0_mel_min == Mel[f0_min].v
f0_mel_max == Mel[f0_max].v

\* the comparisons of lines 32, 35 and 36: every comparison with NaN is false
Gt(x, k) == x.c = "fin" /\ x.v > k

LeNaNTrue(x, k) == x.c # "fin" \/ x.v <= k

Le(x, k) == x.c = "-inf" \/ (x.c = "fin" /\ x.v <= k)

\* (m - f0_mel_min) * (f0_bin - 2) / (f0_mel_max - f0_mel_min) + 1 of lines
\* 32-33 for a finite m, stored with XFracBits fraction bits (to nearest)
RescaleSwapped(m) ==
  LET t == (f0_mel_max - m) * (f0_bin - 2)
      d == f0_mel_max - f0_mel_min
      q == t \div d
      r == t % d
      u == 2^XFracBits
      fr == (2 * r * u + d) \div (2 * d)
  IN Fin((q * u + fr + u) * Grid)

Rescale(m) ==
  LET t == (m - f0_mel_min) * (f0_bin - 2)
      d == f0_mel_max - f0_mel_min
      q == t \div d
      r == t % d
      u == 2^XFracBits
      fr == (2 * r * u + d) \div (2 * d)
  IN Fin((q * u + fr + u) * Grid)


\* f0_mel > 0, f0_mel <= 1 and f0_mel > f0_bin - 1: the boolean masks
MaskGt(arr, k) == [i \in DOMAIN arr |-> Gt(arr[i], k)]
MaskLe(arr, k) == [i \in DOMAIN arr |-> Le(arr[i], k)]

\* how many positions up to i the mask selects
Rank(mask, i) == Cardinality({j \in 1..i : mask[j]})

\* arr[mask]: the selected elements, in order, as a new array
Select(arr, mask) ==
  [k \in 1..Rank(mask, Len(arr)) |->
     arr[CHOOSE i \in DOMAIN arr : mask[i] /\ Rank(mask, i) = k]]

\* arr[mask] = vals: the k-th value goes to the k-th selected position
MaskedAssign(arr, mask, vals) ==
  [i \in DOMAIN arr |-> IF mask[i] THEN vals[Rank(mask, i)] ELSE arr[i]]

\* arr[mask] = v: one value for every selected position
MaskedFill(arr, mask, v) ==
  [i \in DOMAIN arr |-> IF mask[i] THEN v ELSE arr[i]]

\* line 30-31: the mel value of every element
ToMel(data) == [i \in DOMAIN data |-> Mel[data[i]]]

\* line 32-33: the positive mel values are rescaled, the others are kept
RescalePositive(arr) ==
  LET mask == MaskGt(arr, 0)
      sel == Select(arr, mask)
  IN MaskedAssign(arr, mask,
                  [k \in DOMAIN sel |-> Only({Rescale(m) : m \in {sel[k].v}})])

ClampLowOff(arr) == arr

\* line 35: f0_mel[f0_mel <= 1] = 1
ClampLow(arr) == MaskedFill(arr, MaskLe(arr, One), Fin(One))

ClampHighOff(arr) == arr

\* line 36: f0_mel[f0_mel > f0_bin - 1] = f0_bin - 1
ClampHigh(arr) ==
  MaskedFill(arr, MaskGt(arr, (f0_bin - 1) * One), Fin((f0_bin - 1) * One))

\* the most negative value of the integer type (here of 32 bits)
LongMin == (0 - 2^30) - 2^30

\* The conversion of NaN (or an infinity) to an integer is undefined in C:
\* x86 returns the most negative integer, ARM returns 0.
NaNCast == {LongMin, 0}

RintHalfUp(x) == (x.v + Half) \div One

\* np.rint of line 38: to the nearest integer, halfway cases to the even one
Rint(x) ==
  LET fl == x.v \div One
      fr == x.v % One
  IN IF fr > Half \/ (fr = Half /\ fl % 2 = 1) THEN fl + 1 ELSE fl

\* np.rint(f0_mel).astype(np.int), line 38
NumpyRound(x, nan_cast) == IF x.c = "fin" THEN Rint(x) ELSE nan_cast

\* (f0_mel + 0.5).long(), line 37-38: .long() truncates toward zero
TorchRound(x, nan_cast) ==
  IF x.c # "fin" THEN nan_cast
  ELSE IF x.v + Half >= 0 THEN (x.v + Half) \div One
  ELSE 0 - ((0 - (x.v + Half)) \div One)

Max(s) == CHOOSE m \in {s[i] : i \in DOMAIN s} : \A i \in DOMAIN s : s[i] <= m
Min(s) == CHOOSE m \in {s[i] : i \in DOMAIN s} : \A i \in DOMAIN s : m <= s[i]

IsTorch(arg) == arg.kind \in {"tensor", "tensor0d"}

\* f0_to_coarse(f0), lines 28-41: how the call ends, with the locals f0_mel
\* and f0_coarse.  A numpy scalar (what indexing an ndarray gives, and what
\* np.log gives for a Python float) has no item assignment: line 32 raises
\* TypeError.  max() of an empty array raises ValueError (numpy) or
\* RuntimeError (torch) inside the assert statement.
\* lines 37-41: the rounding, then the assert statement and the return
Finish(arg, mel, nan_cast) ==
  Only({ IF Len(coarse) = 0
         THEN [pc |-> IF IsTorch(arg) THEN "RuntimeError" ELSE "ValueError",
               f0_mel |-> <<>>, f0_coarse |-> <<>>]
         ELSE IF Max(coarse) <= 255 /\ Min(coarse) >= 1
         THEN [pc |-> "return", f0_mel |-> mel, f0_coarse |-> coarse]
         ELSE [pc |-> "AssertionError", f0_mel |-> <<>>, f0_coarse |-> <<>>]
       : coarse \in {[i \in DOMAIN mel |->
                        IF IsTorch(arg) THEN TorchRound(mel[i], nan_cast)
                        ELSE NumpyRound(mel[i], nan_cast)]} })

f0_to_coarse(arg, nan_cast) ==
  IF arg.kind = "float64"
  THEN [pc |-> "TypeError", f0_mel |-> <<>>, f0_coarse |-> <<>>]
  ELSE Only({ Finish(arg, m3, nan_cast) :
                m3 \in { ClampHigh(m2) :
                m2 \in { ClampLow(m1) :
                m1 \in { RescalePositive(m0) :
                m0 \in { ToMel(arg.data) } } } } })

\* f0[i]: indexing an ndarray gives a numpy scalar, indexing a tensor gives
\* a 0-d tensor
Item(arg, i) ==
  [kind |-> IF arg.kind = "ndarray" THEN "float64" ELSE "tensor0d",
   data |-> <<arg.data[i]>>]

----------------------------------------------------------------------------
(* The checkpoint finder, lines 123-128.  A string is a sequence of          *)
(* one-character strings.                                                    *)

Digits == <<"0", "1", "2", "3", "4", "5", "6", "7", "8", "9">>

\* str.isdigit on one character
IsDigit(c) == \E d \in DOMAIN Digits : Digits[d] = c

DigitValue(c) == (CHOOSE d \in DOMAIN Digits : Digits[d] = c) - 1

\* "".join(filter(str.isdigit, f)): the digits of the whole path, in order
DigitsOf(f) == SelectSeq(f, IsDigit)

\* int(s) for a string of digits; int("") raises ValueError
RECURSIVE ToInt(_)
ToInt(s) ==
  IF Len(s) = 0 THEN 0
  ELSE 10 * ToInt(SubSeq(s, 1, Len(s) - 1)) + DigitValue(s[Len(s)])

\* the sort key of line 125: every digit of the path, the directory's too
Key(f) == ToInt(DigitsOf(f))

\* os.path.join(dir_path, name)
Join(dir, name) == dir \o <<"/">> \o name

\* list.sort(key): stable, ascending
SortByKey(l) ==
  LET pos(i) == Cardinality({j \in DOMAIN l :
                   Key(l[j]) < Key(l[i]) \/ (Key(l[j]) = Key(l[i]) /\ j < i)}) + 1
  IN [p \in DOMAIN l |-> l[CHOOSE i \in DOMAIN l : pos(i) = p]]

\* latest_checkpoint_path, lines 124-128, on what glob.glob returned
latest_checkpoint_path(l) ==
  IF \E i \in DOMAIN l : DigitsOf(l[i]) = <<>>
  THEN [pc |-> "ValueError", x |-> <<>>]
  ELSE IF Len(l) = 0
  THEN [pc |-> "IndexError", x |-> <<>>]
  ELSE [pc |-> "return", x |-> SortByKey(l)[Len(l)]]

RECURSIVE Strings(_, _, _)
\* the strings over an alphabet with lo to hi characters
Strings(A, lo, hi) ==
  IF hi = 0 THEN {<<>>}
  ELSE LET shorter == Strings(A, 0, hi - 1)
       IN {s \in shorter \cup {Append(t, c) : t \in shorter, c \in A} : Len(s) >= lo}

\* the directories: names with and without digits
DirPaths == Strings({"r", "1"}, 1, MaxDirLen)

\* what "G_*.pth" matches: G_<step>.pth, the step written with or without
\* leading zeros, and a name that holds no number
StarParts == Strings({"0", "1", "2"}, 1, MaxDigits) \cup {<<"b">>}
FileNames == {<<"G", "_">> \o w \o <<".", "p", "t", "h">> : w \in StarParts}

RECURSIVE Listings(_, _)
\* the lists of up to n distinct names, in any order
Listings(N, n) ==
  IF n = 0 THEN {<<>>}
  ELSE LET shorter == Listings(N, n - 1)
           longer == {Append(l, f) : l \in shorter, f \in N}
       IN shorter \cup
            {l \in longer : \A i, j \in DOMAIN l : i < j => l[i] # l[j]}

FinderInit ==
  /\ dir_path \in DirPaths
  /\ \E names \in Listings(FileNames, MaxFiles) :
       f_list = [i \in DOMAIN names |-> Join(dir_path, names[i])]
  /\ finder_pc = "call"
  /\ x_path = <<>>

FinderIdle ==
  /\ dir_path = <<>>
  /\ f_list = <<>>
  /\ finder_pc = "idle"
  /\ x_path = <<>>

\* latest_checkpoint_path(dir_path): f_list is the glob of line 124
LatestCheckpointPath ==
  /\ finder_pc = "call"
  /\ LET r == latest_checkpoint_path(f_list)
     IN finder_pc' = r.pc /\ x_path' = r.x
  /\ UNCHANGED <<dir_path, f_list>>

----------------------------------------------------------------------------
(* The checkpoint store, lines 61-109.  A tensor is a shape and a content;  *)
(* a state dict is a function from the keys of a module to tensors.         *)

\* an optional value: None, or Some(v)
None == <<>>
Some(v) == <<v>>
Value(o) == o[1]

Keys == {"enc.weight", "dec.weight"}
Shapes == {<<2>>, <<2, 2>>}
Tensors == [shape : Shapes, val : 0..MaxVal]
StateDicts == UNION {[ks -> Tensors] : ks \in SUBSET Keys}
\* the states of the optimizer
Optimizers == {"adam step 0", "adam step 1"}
\* what a caller passes as learning_rate and iteration
Progress == {[learning_rate |-> None, iteration |-> None],
             [learning_rate |-> Some("2e-4"), iteration |-> Some(1)]}

\* a model: a module that owns its tensors, or a wrapper (DataParallel)
\* whose .module owns them
Models ==
  {[module |-> sd] : sd \in StateDicts} \cup {[tensors |-> sd] : sd \in StateDicts}

\* hasattr(model, 'module'), lines 73, 84 and 102
HasModule(m) == "module" \in DOMAIN m

\* model.module.state_dict() or model.state_dict(), lines 73-76 and 102-105
StateDictOf(m) == IF HasModule(m) THEN m.module ELSE m.tensors

NewStateDictStrict(state_dict, saved_state_dict) ==
  [k \in DOMAIN state_dict \cap DOMAIN saved_state_dict |-> saved_state_dict[k]]

\* lines 77-83: the saved tensor for every key of the model, the model's own
\* tensor where the checkpoint has none (the except branch)
NewStateDict(state_dict, saved_state_dict) ==
  [k \in DOMAIN state_dict |->
     IF k \in DOMAIN saved_state_dict THEN saved_state_dict[k]
     ELSE state_dict[k]]

\* Module.load_state_dict (strict): a missing or unexpected key and a tensor
\* of another shape are errors, raised after the other tensors are copied
LoadErrors(m, new_state_dict) ==
  \/ DOMAIN new_state_dict # DOMAIN m
  \/ \E k \in DOMAIN m \cap DOMAIN new_state_dict :
       new_state_dict[k].shape # m[k].shape

Copied(sd, new_state_dict) ==
  [k \in DOMAIN sd |->
     IF k \in DOMAIN new_state_dict /\ new_state_dict[k].shape = sd[k].shape
     THEN new_state_dict[k] ELSE sd[k]]

\* model.module.load_state_dict(...) or model.load_state_dict(...), lines 84-87
LoadStateDict(m, new_state_dict) ==
  IF HasModule(m) THEN [module |-> Copied(m.module, new_state_dict)]
  ELSE [tensors |-> Copied(m.tensors, new_state_dict)]

StoreInit ==
  /\ model \in Models
  /\ optimizer \in Optimizers
  /\ file = None
  /\ ckpt_pc = "idle"
  /\ pre = None
  /\ ret = None

StoreIdle ==
  /\ model = None
  /\ optimizer = None
  /\ file = None
  /\ ckpt_pc = "idle"
  /\ pre = None
  /\ ret = None

\* save_checkpoint(model, optimizer, learning_rate, iteration, path),
\* lines 93-109; the caller may pass None for the last two
SaveCheckpoint ==
  /\ \E p \in Progress :
       file' = Some([model |-> StateDictOf(model),
                     iteration |-> p.iteration,
                     optimizer |-> Some(optimizer),
                     learning_rate |-> p.learning_rate])
  /\ ckpt_pc' = "saved"
  /\ pre' = None
  /\ ret' = None
  /\ UNCHANGED <<model, optimizer>>

\* load_checkpoint(path, model, optimizer), lines 61-90; optimizer may be None
LoadCheckpoint ==
  \E with_optimizer \in BOOLEAN :
    IF file = None
    THEN /\ ckpt_pc' = "AssertionError"
         /\ pre' = None
         /\ ret' = None
         /\ UNCHANGED <<model, optimizer, file>>
    ELSE LET checkpoint_dict == Value(file)
             iteration == IF checkpoint_dict.iteration = None THEN 1
                          ELSE Value(checkpoint_dict.iteration)
             learning_rate == IF checkpoint_dict.learning_rate = None
                              THEN "0.0002"
                              ELSE Value(checkpoint_dict.learning_rate)
             state_dict == StateDictOf(model)
             new_state_dict == NewStateDict(state_dict, checkpoint_dict.model)
         IN /\ optimizer' = IF with_optimizer /\ checkpoint_dict.optimizer # None
                            THEN Value(checkpoint_dict.optimizer)
                            ELSE optimizer
            /\ model' = LoadStateDict(model, new_state_dict)
            /\ pre' = Some(state_dict)
            /\ IF LoadErrors(state_dict, new_state_dict)
               THEN ckpt_pc' = "RuntimeError" /\ ret' = None
               ELSE /\ ckpt_pc' = "loaded"
                    /\ ret' = Some([learning_rate |-> learning_rate,
                                    iteration |-> iteration])
            /\ UNCHANGED file

\* between two calls the training loop updates the tensors and the optimizer,
\* or the program is started again with another architecture
Train ==
  /\ model' \in {m \in Models : HasModule(m) = HasModule(model)}
  /\ optimizer' \in Optimizers
  /\ ckpt_pc' = "idle"
  /\ pre' = None
  /\ ret' = None
  /\ UNCHANGED file

----------------------------------------------------------------------------
(* The spectrogram resizer, lines 44-54.  A 3-D tensor is its first size,   *)
(* its rows (dimension -2), each named by where its content comes from, and *)
(* its last size.                                                           *)

Tensor3(c, rows, w) == [size0 |-> c, rows |-> rows, size2 |-> w]

\* torchvision's resize(mel, (h, w)): h new rows of w entries per channel
Resize(t, h, w) == Tensor3(t.size0, [i \in 1..h |-> <<"tgt", i>>], w)

\* t[:, :n, :]
FirstRows(t, n) ==
  Tensor3(t.size0, SubSeq(t.rows, 1, IF n < Len(t.rows) THEN n ELSE Len(t.rows)),
          t.size2)

RepeatLastShort(t, n) ==
  Tensor3(t.size0, [i \in 1..(n - 1) |-> t.rows[Len(t.rows)]], t.size2)

\* t[:, -1:, :].repeat(1, n, 1)
RepeatLast(t, n) == Tensor3(t.size0, [i \in 1..n |-> t.rows[Len(t.rows)]], t.size2)

\* silence += torch.randn_like(silence) / 10, line 53: the same shape, the
\* content of the copied row with noise added
AddNoise(t) ==
  Tensor3(t.size0, [i \in DOMAIN t.rows |-> <<"silence", t.rows[i][2]>>], t.size2)

\* torch.cat((a, b), 1)
Cat1(a, b) == Tensor3(a.size0, a.rows \o b.rows, a.size2)

\* transform(mel, height), lines 44-54; resize refuses an empty output
transform(t, h) ==
  IF h < 1 THEN [pc |-> "RuntimeError", out |-> None]
  ELSE LET tgt == Resize(t, h, t.size2)
       IN IF h >= Len(t.rows)
          THEN [pc |-> "return", out |-> Some(FirstRows(tgt, Len(t.rows)))]
          ELSE [pc |-> "return",
                out |-> Some(Cat1(tgt, AddNoise(RepeatLast(tgt, Len(t.rows) - h))))]

ResizerInit ==
  /\ \E c \in 1..MaxChannels, h \in 1..MaxRows, w \in 1..MaxCols :
       mel_arg = Tensor3(c, [i \in 1..h |-> <<"mel", i>>], w)
  /\ height \in 0..MaxHeight
  /\ transform_pc = "call"
  /\ out = None

ResizerIdle ==
  /\ mel_arg = None
  /\ height = 0
  /\ transform_pc = "idle"
  /\ out = None

\* transform(mel, height)
Transform ==
  /\ transform_pc = "call"
  /\ LET r == transform(mel_arg, height)
     IN transform_pc' = r.pc /\ out' = r.out
  /\ UNCHANGED <<mel_arg, height>>

----------------------------------------------------------------------------
(* The logger bootstrap, lines 18-19 and 207-220.  A path is the sequence   *)
(* of its components: "logs/a" is <<"logs", "a">>, "logs/a/" is             *)
(* <<"logs", "a", "">>.                                                     *)

ModelDirs == {<<"logs", "a">>, <<"logs", "b">>, <<"run", "a">>, <<"logs", "a", "">>}
LogFiles == {"train.log", "eval.log"}

\* os.path.basename: what follows the last separator
Basename(path) == path[Len(path)]

\* the directory a path names: a trailing separator changes nothing
Directory(path) ==
  IF path[Len(path)] = "" THEN SubSeq(path, 1, Len(path) - 1) ELSE path

\* os.path.join(model_dir, filename): no second separator after a trailing one
JoinPath(path, name) == Append(Directory(path), name)

\* os.makedirs: the directory and every missing parent
MakeDirs(ds, path) ==
  ds \cup {SubSeq(Directory(path), 1, n) : n \in 1..Len(Directory(path))}

LoggerNames == {Basename(d) : d \in ModelDirs} \cup {""}

AddHandlerOnce(hs, h) ==
  IF \E i \in DOMAIN hs : hs[i].kind = "file" THEN hs ELSE Append(hs, h)

\* Logger.addHandler: appends unless this very handler object is attached
AddHandler(hs, h) ==
  IF \E i \in DOMAIN hs : hs[i] = h THEN hs ELSE Append(hs, h)

TotalCalls == Cardinality({<<d, n, i>> \in ModelDirs \X LogFiles \X (1..MaxCalls) :
                             i <= calls[d, n]})

\* the state after the import of the module: basicConfig of line 18 gave the
\* root logger (named "") a stream handler; line 19 binds logger to logging
LoggingInit ==
  /\ loggers = [n \in LoggerNames |->
                  IF n = "" THEN [level |-> "DEBUG",
                                  handlers |-> <<[kind |-> "stream", id |-> 0,
                                                  file |-> <<"stdout">>]>>]
                  ELSE [level |-> "NOTSET", handlers |-> <<>>]]
  /\ logger = "logging"
  /\ dirs \in {{}, {<<"logs">>}, {<<"logs">>, <<"logs", "a">>}}
  /\ calls = [c \in ModelDirs \X LogFiles |-> 0]
  /\ last = None

LoggingIdle ==
  /\ loggers = None
  /\ logger = "logging"
  /\ dirs = {}
  /\ calls = None
  /\ last = None

\* get_logger(model_dir, filename), lines 207-220
GetLogger ==
  /\ TotalCalls < MaxCalls
  /\ \E model_dir \in ModelDirs, filename \in LogFiles :
       LET name == Basename(model_dir)
           exists == Directory(model_dir) \in dirs
           h == [kind |-> "file", id |-> TotalCalls + 1,
                 file |-> JoinPath(model_dir, filename)]
       IN /\ logger' = name
          /\ dirs' = IF exists THEN dirs ELSE MakeDirs(dirs, model_dir)
          /\ loggers' = [loggers EXCEPT ![name] =
                           [level |-> "DEBUG",
                            handlers |-> AddHandler(@.handlers, h)]]
          /\ calls' = [calls EXCEPT ![model_dir, filename] = @ + 1]
          /\ last' = Some([model_dir |-> model_dir, filename |-> filename,
                           existed |-> exists, dirs |-> dirs,
                           handlers |-> loggers[name].handlers])

----------------------------------------------------------------------------
(* The calls of the pitch quantizer. *)

\* the values of the frames after the first: below the logarithm's domain,
\* silence, voiced, above the range
RestValues == {0 - MaxNegF0, 0, f0_max \div 2, MaxPosF0}

RECURSIVE SeqsUpTo(_, _)
SeqsUpTo(S, n) ==
  IF n = 0 THEN {<<>>}
  ELSE LET shorter == SeqsUpTo(S, n - 1)
       IN shorter \cup {Append(s, x) : s \in shorter, x \in S}

\* a batch: nothing, or a first frame of any modelled pitch and then up to
\* MaxLen - 1 frames
Batches ==
  {<<>>} \cup {<<h>> \o t : h \in F0Values, t \in SeqsUpTo(RestValues, MaxLen - 1)}

PitchInit ==
  /\ f0 \in [kind : {"ndarray", "tensor"}, data : Batches]
  /\ pc = "call"
  /\ f0_mel = <<>>
  /\ f0_coarse = <<>>
  /\ elem = 0
  /\ elem_pc = "none"
  /\ elem_coarse = <<>>

\* f0_to_coarse(f0) on the batch
CallBatch ==
  /\ pc = "call"
  /\ \E nan_cast \in NaNCast :
       LET r == f0_to_coarse(f0, nan_cast)
       IN /\ pc' = r.pc
          /\ f0_mel' = r.f0_mel
          /\ f0_coarse' = r.f0_coarse
  /\ UNCHANGED <<f0, elem, elem_pc, elem_coarse>>

\* f0_to_coarse(f0[i]) on one element of the batch, alone
CallElement ==
  /\ pc # "call"
  /\ elem = 0
  /\ \E i \in DOMAIN f0.data, nan_cast \in NaNCast :
       LET r == f0_to_coarse(Item(f0, i), nan_cast)
       IN /\ elem' = i
          /\ elem_pc' = r.pc
          /\ elem_coarse' = r.f0_coarse
  /\ UNCHANGED <<f0, pc, f0_mel, f0_coarse>>

PitchIdle ==
  /\ f0 = [kind |-> "none", data |-> <<>>]
  /\ pc = "idle"
  /\ f0_mel = <<>>
  /\ f0_coarse = <<>>
  /\ elem = 0
  /\ elem_pc = "none"
  /\ elem_coarse = <<>>


----------------------------------------------------------------------------
(* The specifications: one per routine, the other routines idle. *)

Init == PitchInit /\ FinderIdle /\ StoreIdle /\ ResizerIdle /\ LoggingIdle

Next ==
  \/ CallBatch /\ UNCHANGED <<finderVars, storeVars, resizerVars, loggingVars>>
  \/ CallElement /\ UNCHANGED <<finderVars, storeVars, resizerVars, loggingVars>>

Spec == Init /\ [][Next]_vars

InitFinder == FinderInit /\ PitchIdle /\ StoreIdle /\ ResizerIdle /\ LoggingIdle

NextFinder ==
  LatestCheckpointPath
    /\ UNCHANGED <<pitchVars, storeVars, resizerVars, loggingVars>>

SpecFinder == InitFinder /\ [][NextFinder]_vars

InitStore == StoreInit /\ PitchIdle /\ FinderIdle /\ ResizerIdle /\ LoggingIdle

NextStore ==
  \/ SaveCheckpoint /\ UNCHANGED <<pitchVars, finderVars, resizerVars, loggingVars>>
  \/ LoadCheckpoint /\ UNCHANGED <<pitchVars, finderVars, resizerVars, loggingVars>>
  \/ Train /\ UNCHANGED <<pitchVars, finderVars, resizerVars, loggingVars>>

SpecStore == InitStore /\ [][NextStore]_vars

InitResizer == ResizerInit /\ PitchIdle /\ FinderIdle /\ StoreIdle /\ LoggingIdle

NextResizer ==
  Transform /\ UNCHANGED <<pitchVars, finderVars, storeVars, loggingVars>>

SpecResizer == InitResizer /\ [][NextResizer]_vars

InitLogging == LoggingInit /\ PitchIdle /\ FinderIdle /\ StoreIdle /\ ResizerIdle

NextLogging ==
  GetLogger /\ UNCHANGED <<pitchVars, finderVars, storeVars, resizerVars>>

SpecLogging == InitLogging /\ [][NextLogging]_vars

----------------------------------------------------------------------------
(* The claims about the pitch quantizer. *)

Ended == pc # "call"
Data == f0.data
InBins(c) == c >= 1 /\ c <= f0_bin - 1

\* f0_to_coarse of the one-element batch <<hz>>, per kind of container
BinOf ==
  [kind \in {"ndarray", "tensor"} |->
     [hz \in f0_min..f0_max |->
        f0_to_coarse([kind |-> kind, data |-> <<hz>>], 0).f0_coarse[1]]]

\* C1 as stated: every batch of values >= 0, the empty one included, returns
\* an array of the same shape with every bin in [1, 255].
C1_EveryArrayInRange ==
  (Ended /\ \A i \in DOMAIN Data : Data[i] >= 0)
    => /\ pc = "return"
       /\ Len(f0_coarse) = Len(Data)
       /\ \A i \in DOMAIN f0_coarse : InBins(f0_coarse[i])

\* C1 amended: every batch of at least one value, all >= 0, returns an array
\* of the same shape with every bin in [1, 255]; the assertion does not fail.
C1_NonEmptyInRange ==
  (Ended /\ Len(Data) >= 1 /\ \A i \in DOMAIN Data : Data[i] >= 0)
    => /\ pc = "return"
       /\ Len(f0_coarse) = Len(Data)
       /\ \A i \in DOMAIN f0_coarse : InBins(f0_coarse[i])

C1_Witness ==
  /\ pc = "return"
  /\ Len(Data) >= 2
  /\ \A i \in DOMAIN Data : Data[i] >= 0
  /\ \E i, j \in DOMAIN Data :
       /\ Data[i] > f0_max /\ f0_coarse[i] = f0_bin - 1
       /\ Data[j] = 0 /\ f0_coarse[j] = 1

\* C2: the quantizer saturates without an error: 0 and every positive value
\* up to f0_min give bin 1, every value from f0_max on gives bin 255.
C2_Saturates ==
  /\ pc = "return" =>
       \A i \in DOMAIN Data :
         /\ (Data[i] >= 0 /\ Data[i] <= f0_min) => f0_coarse[i] = 1
         /\ Data[i] >= f0_max => f0_coarse[i] = f0_bin - 1
  /\ ( /\ Ended
       /\ Len(Data) >= 1
       /\ \A i \in DOMAIN Data :
            (Data[i] >= 0 /\ Data[i] <= f0_min) \/ Data[i] >= f0_max )
     => pc = "return"

C2_Witness ==
  /\ pc = "return"
  /\ \E i, j \in DOMAIN Data :
       /\ Data[i] > 0 /\ Data[i] < f0_min /\ f0_coarse[i] = 1
       /\ Data[j] > f0_max /\ f0_coarse[j] = f0_bin - 1

\* C3: on [f0_min, f0_max] the bin never decreases when the pitch grows:
\* within one batch and, when the batch call returns, between its first
\* frame and every one-element batch of a higher pitch.
C3_Monotone ==
  pc = "return" =>
    /\ \A i, j \in DOMAIN Data :
         (f0_min <= Data[i] /\ Data[i] <= Data[j] /\ Data[j] <= f0_max)
           => f0_coarse[i] <= f0_coarse[j]
    /\ (elem = 0 /\ f0_min <= Data[1] /\ Data[1] <= f0_max)
         => \A b \in Data[1]..f0_max : f0_coarse[1] <= BinOf[f0.kind][b]

C3_Witness ==
  /\ pc = "return"
  /\ Len(Data) >= 2
  /\ f0_min < Data[1] /\ Data[1] < Data[2] /\ Data[2] < f0_max
  /\ f0_coarse[1] < f0_coarse[2]

\* C4 as stated: the bin at index i of the batch result is what the call on
\* the element f0[i] alone returns, and that call succeeds.
C4_ElementLikeBatch ==
  (pc = "return" /\ elem # 0)
    => elem_pc = "return" /\ elem_coarse = <<f0_coarse[elem]>>

\* C5 as stated: a batch that holds a negative value never returns.
C5_NegativeNeverReturns ==
  (Ended /\ \E i \in DOMAIN Data : Data[i] < 0) => pc # "return"

\* C5 amended: a batch that holds a value below -700 Hz (where 1 + f0 / 700
\* is negative) ends in the assertion error; every other non-empty batch
\* returns, with bin 1 for each negative value.
C5_FailsBelowLogDomain ==
  Ended =>
    /\ (\E i \in DOMAIN Data : Data[i] < 0 - 700) => pc = "AssertionError"
    /\ (Len(Data) >= 1 /\ \A i \in DOMAIN Data : Data[i] >= 0 - 700)
         => /\ pc = "return"
            /\ \A i \in DOMAIN Data : Data[i] < 0 => f0_coarse[i] = 1

C5_Witness ==
  /\ pc = "AssertionError"
  /\ \E i, j \in DOMAIN Data : Data[i] < 0 - 700 /\ Data[j] > 0

\* the value is exactly halfway between two integers, the lower one even
HalfwayAboveEven(x) == x.v % One = Half /\ (x.v \div One) % 2 = 0

\* C8 as stated: in both branches the bin is floor(x + 0.5) of the clamped x.
C8_BothFloorHalfUp ==
  pc = "return" =>
    \A i \in DOMAIN f0_coarse : f0_coarse[i] = (f0_mel[i].v + Half) \div One

\* C8 amended: the tensor branch returns floor(x + 0.5); the ndarray branch
\* rounds halfway cases to the even integer, so it returns floor(x + 0.5)
\* too unless x is halfway above an even integer, where it returns floor(x).
C8_HalfUpOrHalfEven ==
  pc = "return" =>
    \A i \in DOMAIN f0_coarse :
      f0_coarse[i] =
        IF f0.kind = "ndarray" /\ HalfwayAboveEven(f0_mel[i])
        THEN f0_mel[i].v \div One
        ELSE (f0_mel[i].v + Half) \div One

C8_Witness ==
  /\ pc = "return"
  /\ f0.kind = "ndarray"
  /\ \E i \in DOMAIN f0_coarse :
       HalfwayAboveEven(f0_mel[i]) /\ f0_coarse[i] = f0_mel[i].v \div One

----------------------------------------------------------------------------
(* The claim about the checkpoint finder. *)

\* the file name of a path: what follows the last "/"
NameOf(f) ==
  LET cut == CHOOSE i \in DOMAIN f :
               f[i] = "/" /\ \A j \in (i + 1)..Len(f) : f[j] # "/"
  IN SubSeq(f, cut + 1, Len(f))

\* the step number embedded in G_<step>.pth
StepOf(f) == ToInt(DigitsOf(NameOf(f)))

HasStep(f) == DigitsOf(NameOf(f)) # <<>>

\* C6 as stated: whenever a file matches, the finder returns the match with
\* the largest step number in its file name, whatever the directory is called.
C6_ReturnsLargestStep ==
  (finder_pc # "call" /\ f_list # <<>>)
    => /\ finder_pc = "return"
       /\ \E i \in DOMAIN f_list : f_list[i] = x_path
       /\ \A i \in DOMAIN f_list :
            HasStep(f_list[i]) => StepOf(f_list[i]) <= StepOf(x_path)

----------------------------------------------------------------------------
(* The claim about the checkpoint store. *)

\* C7: after a load of a checkpoint that save_checkpoint wrote, every key of
\* the model holds the saved tensor if the checkpoint has the key and the
\* tensor the model had before the load if not; a load that fails fails on
\* a saved tensor of another shape, never on a missing key.
C7_LoadKeepsOrReplaces ==
  /\ ckpt_pc = "loaded" =>
       /\ DOMAIN StateDictOf(model) = DOMAIN Value(pre)
       /\ \A k \in DOMAIN StateDictOf(model) :
            StateDictOf(model)[k] = IF k \in DOMAIN Value(file).model
                       THEN Value(file).model[k] ELSE Value(pre)[k]
  /\ ckpt_pc = "RuntimeError" =>
       \E k \in DOMAIN Value(pre) \cap DOMAIN Value(file).model :
         Value(pre)[k].shape # Value(file).model[k].shape

C7_Witness ==
  /\ ckpt_pc = "loaded"
  /\ \E k \in DOMAIN Value(pre) : k \notin DOMAIN Value(file).model
  /\ \E k \in DOMAIN Value(pre) :
       k \in DOMAIN Value(file).model /\ StateDictOf(model)[k] # Value(pre)[k]

----------------------------------------------------------------------------
(* The claims about the resizer and the logger bootstrap. *)

\* tensor.size(-2) and tensor.size(-1)
Size2(t) == Len(t.rows)
Size1(t) == t.size2

\* C9: for every height >= 1 transform returns a tensor with the rows and
\* columns of mel: the resized tensor cut to mel's rows when height is at
\* least that many, the resized tensor and then the missing number of
\* padding rows when it is fewer.
C9_TransformKeepsShape ==
  (transform_pc # "call" /\ height >= 1) =>
    /\ transform_pc = "return"
    /\ Size2(Value(out)) = Size2(mel_arg)
    /\ Size1(Value(out)) = Size1(mel_arg)
    /\ Value(out).size0 = mel_arg.size0
    /\ LET H == Size2(mel_arg)
           rows == Value(out).rows
       IN IF height >= H
          THEN \A i \in 1..H : rows[i] = <<"tgt", i>>
          ELSE /\ \A i \in 1..height : rows[i] = <<"tgt", i>>
               /\ \A i \in (height + 1)..H : rows[i][1] = "silence"

C9_Witness ==
  /\ transform_pc = "return"
  /\ height >= 1
  /\ height + 2 <= Size2(mel_arg)
  /\ Size2(Value(out)) = Size2(mel_arg)

FileHandlers(hs) == {i \in DOMAIN hs : hs[i].kind = "file"}

\* C10: every get_logger call appends one file handler to the logger named
\* by the base name of model_dir and removes none, so after k calls with one
\* model_dir and filename that logger holds k file handlers on that file;
\* the directory is created only by a call that finds it absent.
C10_OneHandlerPerCall ==
  loggers # None =>
    /\ \A d \in ModelDirs, n \in LogFiles :
         Cardinality({i \in FileHandlers(loggers[Basename(d)].handlers) :
                        loggers[Basename(d)].handlers[i].file = JoinPath(d, n)})
           = calls[d, n]
    /\ last # None =>
         LET c == Value(last)
             hs == loggers[Basename(c.model_dir)].handlers
         IN /\ Len(hs) = Len(c.handlers) + 1
            /\ SubSeq(hs, 1, Len(c.handlers)) = c.handlers
            /\ hs[Len(hs)].kind = "file"
            /\ hs[Len(hs)].file = JoinPath(c.model_dir, c.filename)
            /\ logger = Basename(c.model_dir)
            /\ c.existed => dirs = c.dirs
            /\ Directory(c.model_dir) \in dirs

C10_Witness ==
  /\ loggers # None
  /\ \E d \in ModelDirs, n \in LogFiles :
       /\ calls[d, n] = 3
       /\ Cardinality(FileHandlers(loggers[Basename(d)].handlers)) = 3
       /\ Value(last).existed

====
